---- MODULE Spec2Model ----
(***************************************************************************)
(* Size and alignment of the composite types of src/src/lib.rs under the   *)
(* default and the C representation.  A layout run takes one type          *)
(* (a struct or an enum with payload variants), orders its members as the  *)
(* representation prescribes and places them one at a time.                *)
(***************************************************************************)
EXTENDS Integers, Sequences, FiniteSets, TLC

VARIABLES kind, strategy, fields, disc, pc, order, offset, offsets, alignment, result

vars == <<kind, strategy, fields, disc, pc, order, offset, offsets, alignment, result>>

\* Largest number of fields of a struct, or of variants of an enum.
MaxFields == 4

FD(s, a) == [size |-> s, alignment |-> a]

\* The member types the source measures: A (unit struct), bool, i32, i64,
\* and an aggregate of three i32 words (size 12, alignment 4).
FieldTypes == {FD(0, 1), FD(1, 1), FD(4, 4), FD(8, 8), FD(12, 4)}

\* Descriptors no type of the language has: alignment 0, alignment not a power of 2.
MalformedDescriptors == {FD(4, 0), FD(6, 6)}

Descriptors == FieldTypes \cup MalformedDescriptors

\* The discriminant slot of a type that has none.
NoDiscriminant == FD(0, 1)

RECURSIVE IsPowerOfTwo(_)
IsPowerOfTwo(n) ==
    IF n <= 0 THEN FALSE
    ELSE IF n = 1 THEN TRUE
    ELSE n % 2 = 0 /\ IsPowerOfTwo(n \div 2)

ValidDescriptor(d) == d.alignment >= 1 /\ IsPowerOfTwo(d.alignment)

\* Variant of ValidInput that lets an enum without variants through.
ValidInputNoEmptyCheck(k, fs, d) ==
    /\ \A i \in 1..Len(fs) : ValidDescriptor(fs[i])
    /\ k = "TaggedUnion" => ValidDescriptor(d)

ValidInput(k, fs, d) ==
    /\ \A i \in 1..Len(fs) : ValidDescriptor(fs[i])
    /\ k = "TaggedUnion" => (Len(fs) >= 1 /\ ValidDescriptor(d))

\* Variant of AlignUp that pads an offset that is already aligned.
AlignUpPastAligned(off, a) == off + a - (off % a)

\* "add padding bytes to the current offset until it is a multiple of the
\* field's alignment"
RECURSIVE AlignUp(_, _)
AlignUp(off, a) == IF off % a = 0 THEN off ELSE AlignUp(off + 1, a)

\* Variant of Place that puts the field at the running offset, unpadded.
PlacePacked(st, f) ==
    [offset |-> st.offset + f.size, offsets |-> Append(st.offsets, st.offset)]

\* One field: pad, record the offset, advance by the field's size.
Place(st, f) ==
    LET at == AlignUp(st.offset, f.alignment)
    IN  [offset |-> at + f.size, offsets |-> Append(st.offsets, at)]

\* Variant of MaxAlignment that takes the first member's alignment.
FirstAlignment(fs) == IF fs = <<>> THEN 1 ELSE Head(fs).alignment

\* The alignment of the most-aligned member; 1 for a type without members.
RECURSIVE MaxAlignment(_)
MaxAlignment(fs) ==
    IF fs = <<>> THEN 1
    ELSE LET rest == MaxAlignment(Tail(fs))
         IN  IF Head(fs).alignment > rest THEN Head(fs).alignment ELSE rest

RECURSIVE MaxSize(_)
MaxSize(fs) ==
    IF fs = <<>> THEN 0
    ELSE LET rest == MaxSize(Tail(fs))
         IN  IF Head(fs).size > rest THEN Head(fs).size ELSE rest

\* Variant of FinalSize without trailing padding.
FinalSizeNoTrailingPadding(off, al) == off

\* Variant of FinalSize that gives every type at least one alignment unit.
FinalSizeAtLeastOne(off, al) == IF off = 0 THEN al ELSE AlignUp(off, al)

\* The size of the type: the current offset rounded up to the type's alignment.
FinalSize(off, al) == AlignUp(off, al)

\* Variant of UnionRegion sized and aligned by the first variant alone.
UnionRegionFirstVariant(variants) == variants[1]

\* union MyEnumFields: as large as its largest variant, as aligned as its
\* most-aligned one, its size a multiple of its alignment like every type's.
UnionRegion(variants) ==
    FD(AlignUp(MaxSize(variants), MaxAlignment(variants)), MaxAlignment(variants))

\* Variant of CEnumRepr that drops the tag of a single-variant enum.
CEnumElided(d, variants) ==
    IF Len(variants) = 1 THEN <<variants[1]>>
    ELSE <<d, FD(AlignUp(MaxSize(variants), MaxAlignment(variants)), MaxAlignment(variants))>>

\* #[repr(C)] enum: struct { tag, payload union }, for any number of variants.
CEnumRepr(d, variants) == <<d, UnionRegion(variants)>>

\* Variant of DefaultEnumRepr that stores the tag of a single-variant enum too.
DefaultEnumAlwaysTagged(d, variants) == <<d, UnionRegion(variants)>>

\* Default enum: max size + tag; a single-variant enum has no tag.
DefaultEnumRepr(d, variants) ==
    IF Len(variants) = 1 THEN <<variants[1]>> ELSE <<d, UnionRegion(variants)>>

Members(k, s, fs, d) ==
    IF k = "Struct" THEN fs
    ELSE IF s = "Sequential" THEN CEnumRepr(d, fs)
    ELSE DefaultEnumRepr(d, fs)

Permute(seq, p) == [i \in 1..Len(seq) |-> seq[p[i]]]

\* The orders a representation may place the members in: the C representation
\* keeps declaration order, the default one may take any.
Orders(s, ms) ==
    IF s = "Sequential" THEN {ms}
    ELSE {Permute(ms, p) : p \in Permutations(1..Len(ms))}

RECURSIVE PlaceAll(_, _)
PlaceAll(ord, st) ==
    IF ord = <<>> THEN st ELSE PlaceAll(Tail(ord), Place(st, Head(ord)))

\* The whole layout of the members in the order given.
Layout(ord) ==
    LET st == PlaceAll(ord, [offset |-> 0, offsets |-> <<>>])
        al == MaxAlignment(ord)
    IN  [size |-> FinalSize(st.offset, al), alignment |-> al, offsets |-> st.offsets]

RECURSIVE SeqsUpTo(_, _)
SeqsUpTo(S, n) ==
    IF n = 0 THEN {<<>>}
    ELSE LET shorter == SeqsUpTo(S, n - 1)
         IN  shorter \cup {Append(q, x) : q \in {r \in shorter : Len(r) = n - 1}, x \in S}

Init ==
    /\ kind \in {"Struct", "TaggedUnion"}
    /\ strategy \in {"Default", "Sequential"}
    /\ fields \in SeqsUpTo(Descriptors, MaxFields)
    /\ disc \in (IF kind = "TaggedUnion" THEN Descriptors ELSE {NoDiscriminant})
    /\ pc = "start"
    /\ order = <<>>
    /\ offset = 0
    /\ offsets = <<>>
    /\ alignment = 1
    /\ result = <<>>

\* The validation pass: a malformed description is refused before anything is placed.
Validate ==
    /\ pc = "start"
    /\ pc' = IF ValidInput(kind, fields, disc) THEN "order" ELSE "InvalidDescriptor"
    /\ UNCHANGED <<kind, strategy, fields, disc, order, offset, offsets, alignment, result>>

ChooseOrder ==
    /\ pc = "order"
    /\ order' \in Orders(strategy, Members(kind, strategy, fields, disc))
    /\ alignment' = MaxAlignment(order')
    /\ offset' = 0
    /\ offsets' = <<>>
    /\ pc' = "place"
    /\ UNCHANGED <<kind, strategy, fields, disc, result>>

PlaceField ==
    /\ pc = "place"
    /\ Len(offsets) < Len(order)
    /\ LET st == Place([offset |-> offset, offsets |-> offsets], order[Len(offsets) + 1])
       IN  /\ offset' = st.offset
           /\ offsets' = st.offsets
    /\ UNCHANGED <<kind, strategy, fields, disc, pc, order, alignment, result>>

Finalize ==
    /\ pc = "place"
    /\ Len(offsets) = Len(order)
    /\ result' = <<[size |-> FinalSize(offset, alignment), alignment |-> alignment,
                   offsets |-> offsets]>>
    /\ pc' = "done"
    /\ UNCHANGED <<kind, strategy, fields, disc, order, offset, offsets, alignment>>

Next == Validate \/ ChooseOrder \/ PlaceField \/ Finalize

Spec == Init /\ [][Next]_vars

TypeOK ==
    /\ pc \in {"start", "order", "place", "done", "InvalidDescriptor"}
    /\ Len(result) <= 1
    /\ pc = "done" <=> Len(result) = 1
    /\ pc = "done" => result[1] = Layout(order)

(***************************************************************************)
(* Properties                                                              *)
(***************************************************************************)

Done == pc = "done"

Placing == pc \in {"place", "done"}

\* x rounded up to a multiple of a, in closed form.
RoundUp(x, a) == ((x + a - 1) \div a) * a

RECURSIVE SumSizes(_)
SumSizes(fs) == IF fs = <<>> THEN 0 ELSE Head(fs).size + SumSizes(Tail(fs))

\* m is the largest alignment among the descriptors of fs.
IsMaxAlignmentOf(m, fs) ==
    /\ \A i \in 1..Len(fs) : fs[i].alignment <= m
    /\ \E i \in 1..Len(fs) : fs[i].alignment = m

\* m is the largest size among the descriptors of fs.
IsMaxSizeOf(m, fs) ==
    /\ \A i \in 1..Len(fs) : fs[i].size <= m
    /\ \E i \in 1..Len(fs) : fs[i].size = m

\* C1: the size of every computed layout, of a struct or an enum under either
\* representation, is a multiple of its alignment, and the alignment is a
\* power of 2 that is at least 1.
C1_SizeMultipleOfAlignment ==
    Done =>
        LET r == result[1]
        IN  /\ r.alignment >= 1
            /\ \E e \in 0..r.alignment : 2^e = r.alignment
            /\ r.size % r.alignment = 0

\* An enum whose last member ends off the type's alignment, so that trailing
\* padding was added.
C1_Witness ==
    /\ Done
    /\ kind = "TaggedUnion"
    /\ offset % alignment # 0
    /\ result[1].size > offset

\* C2: the C representation places the fields of a struct in declaration
\* order; each offset is the running offset plus (-running offset) mod the
\* field's alignment, the running offset then advances by the field's size,
\* and the size is the last running offset rounded up to the alignment.
C2_SequentialStructLayout ==
    (kind = "Struct" /\ strategy = "Sequential" /\ Placing) =>
        /\ order = fields
        /\ \A k \in 1..Len(offsets) :
              LET run == IF k = 1 THEN 0 ELSE offsets[k - 1] + fields[k - 1].size
              IN  offsets[k] = run + ((0 - run) % fields[k].alignment)
        /\ offset = IF offsets = <<>> THEN 0
                    ELSE offsets[Len(offsets)] + fields[Len(offsets)].size
        /\ Done =>
              /\ Len(result[1].offsets) = Len(fields)
              /\ result[1].offsets = offsets
              /\ result[1].size = offset + ((0 - offset) % result[1].alignment)
        /\ (Done /\ fields = <<FD(4, 4), FD(8, 8)>>) =>
              result[1] = [size |-> 16, alignment |-> 8, offsets |-> <<0, 8>>]
        /\ (Done /\ fields = <<FD(8, 8), FD(4, 4)>>) =>
              result[1] = [size |-> 16, alignment |-> 8, offsets |-> <<0, 8>>]

\* struct CA { a: i32, b: i64 } laid out: 4 bytes of padding before b.
C2_Witness ==
    /\ Done
    /\ kind = "Struct"
    /\ strategy = "Sequential"
    /\ fields = <<FD(4, 4), FD(8, 8)>>
    /\ result[1].offsets = <<0, 8>>
    /\ result[1].size = 16

C4_EmptyStruct ==
    (kind = "Struct" /\ fields = <<>>) =>
        /\ pc # "InvalidDescriptor"
        /\ Done => result[1] = [size |-> 0, alignment |-> 1, offsets |-> <<>>]

C4_Witness ==
    /\ Done
    /\ kind = "Struct"
    /\ fields = <<>>
    /\ result[1].size = 0
    /\ result[1].alignment = 1

\* C5: under the default representation an enum with exactly one variant
\* stores no discriminant: its only member is the payload, its size is the
\* payload's size rounded up to the payload's alignment, its alignment the
\* payload's, whatever the discriminant is.
C5_SingleVariantElision ==
    (kind = "TaggedUnion" /\ strategy = "Default" /\ Len(fields) = 1 /\ Placing) =>
        /\ order = <<fields[1]>>
        /\ Done =>
              /\ result[1].size = RoundUp(fields[1].size, fields[1].alignment)
              /\ result[1].alignment = fields[1].alignment
              /\ result[1].offsets = <<0>>

\* DefaultEnumSingle { A(i32) } with a discriminant larger and more aligned
\* than the payload: size 4, alignment 4.
C5_Witness ==
    /\ Done
    /\ kind = "TaggedUnion"
    /\ strategy = "Default"
    /\ fields = <<FD(4, 4)>>
    /\ disc = FD(8, 8)
    /\ result[1].size = 4
    /\ result[1].alignment = 4

\* C6: under the default representation an enum with two or more variants
\* has the largest alignment among its payloads and its discriminant, and
\* its size is the largest payload size rounded up to that alignment plus
\* the discriminant's size rounded up to that alignment; four i32 variants
\* with a 4-byte discriminant give size 8, alignment 4.
C6_DefaultEnumLayout ==
    (kind = "TaggedUnion" /\ strategy = "Default" /\ Len(fields) >= 2 /\ Done) =>
        LET r == result[1]
        IN  /\ IsMaxAlignmentOf(r.alignment, Append(fields, disc))
            /\ \E m \in {fields[i].size : i \in 1..Len(fields)} :
                  /\ IsMaxSizeOf(m, fields)
                  /\ r.size = RoundUp(m, r.alignment) + RoundUp(disc.size, r.alignment)
            /\ (fields = <<FD(4, 4), FD(4, 4), FD(4, 4), FD(4, 4)>> /\ disc = FD(4, 4)) =>
                  (r.size = 8 /\ r.alignment = 4)

\* DefaultEnum { A(i32), B(i32), C(i32), D(i32) }: size 8, alignment 4.
C6_Witness ==
    /\ Done
    /\ kind = "TaggedUnion"
    /\ strategy = "Default"
    /\ fields = <<FD(4, 4), FD(4, 4), FD(4, 4), FD(4, 4)>>
    /\ disc = FD(4, 4)
    /\ result[1].size = 8
    /\ result[1].alignment = 4

\* C7: under the C representation an enum is a two-member struct, the
\* discriminant at offset 0 and then the payload union, as aligned as the
\* most-aligned payload and holding the largest one, the total rounded up to
\* the alignment; the discriminant is there for one variant too, so such an
\* enum with a discriminant of size > 0 is larger than under the default
\* representation.
C7_SequentialEnumLayout ==
    (kind = "TaggedUnion" /\ strategy = "Sequential" /\ Placing) =>
        /\ Len(order) = 2
        /\ order[1] = disc
        /\ IsMaxAlignmentOf(order[2].alignment, fields)
        /\ IsMaxAlignmentOf(alignment, Append(fields, disc))
        /\ Len(offsets) >= 1 => offsets[1] = 0
        /\ Len(offsets) = 2 => offsets[2] = RoundUp(disc.size, order[2].alignment)
        /\ Done =>
              /\ result[1].alignment = alignment
              /\ \E m \in {fields[i].size : i \in 1..Len(fields)} :
                    /\ IsMaxSizeOf(m, fields)
                    /\ result[1].size =
                          RoundUp(RoundUp(disc.size, order[2].alignment) + m, alignment)
              /\ (Len(fields) = 1 /\ disc.size > 0) =>
                    result[1].size > Layout(DefaultEnumRepr(disc, fields)).size

\* CEnumSingle { A(i32) } with a 4-byte discriminant: 8 bytes against the 4
\* of the default representation.
C7_Witness ==
    /\ Done
    /\ kind = "TaggedUnion"
    /\ strategy = "Sequential"
    /\ fields = <<FD(4, 4)>>
    /\ disc = FD(4, 4)
    /\ result[1].size = 8
    /\ Layout(DefaultEnumRepr(disc, fields)).size = 4

\* The description has a descriptor whose alignment is 0 or no power of 2,
\* or is an enum without variants.
Malformed ==
    \/ \E i \in 1..Len(fields) :
          fields[i].alignment = 0 \/ ~(\E e \in 0..fields[i].alignment : 2^e = fields[i].alignment)
    \/ /\ kind = "TaggedUnion"
       /\ \/ disc.alignment = 0
          \/ ~(\E e \in 0..disc.alignment : 2^e = disc.alignment)
          \/ fields = <<>>

\* C8: a description with an alignment that is 0 or not a power of 2, or an
\* enum without variants, is refused under both representations before any
\* member is ordered or placed: no offset, alignment or size is computed.
C8_InvalidDescriptor ==
    /\ Malformed =>
          /\ pc \in {"start", "InvalidDescriptor"}
          /\ order = <<>>
          /\ offsets = <<>>
          /\ offset = 0
          /\ result = <<>>
    /\ pc = "InvalidDescriptor" => Malformed

\* A refused enum whose only flaw is its discriminant's alignment.
C8_Witness ==
    /\ pc = "InvalidDescriptor"
    /\ kind = "TaggedUnion"
    /\ Len(fields) >= 1
    /\ \A i \in 1..Len(fields) : fields[i] \in FieldTypes
    /\ disc = FD(6, 6)
    /\ result = <<>>

\* The fields of a struct placed so far are aligned, pairwise disjoint and
\* below the running offset.
PlacedFieldsOK ==
    /\ \A k \in 1..Len(offsets) :
          /\ offsets[k] % order[k].alignment = 0
          /\ offsets[k] + order[k].size <= offset
    /\ \A j, k \in 1..Len(offsets) :
          j < k => offsets[j] + order[j].size <= offsets[k]
    /\ Done => result[1].size >= SumSizes(fields)

\* C9: after every step of the layout of a struct, under both
\* representations, the fields placed so far are aligned to their own
\* alignment and do not overlap, the running offset never decreases, and the
\* final size is at least the sum of the field sizes.
C9_AlignedNoOverlap ==
    /\ [](kind = "Struct" /\ Placing => PlacedFieldsOK)
    /\ [][kind = "Struct" => offset' >= offset]_vars

\* A three-field struct under the default representation, laid out in an
\* order that needs padding between fields.
C9_Witness ==
    /\ Done
    /\ kind = "Struct"
    /\ strategy = "Default"
    /\ Len(fields) = 3
    /\ \E k \in 2..3 : offsets[k] > offsets[k - 1] + order[k - 1].size
    /\ result[1].size > SumSizes(fields)

\* The order is by descending alignment.
DescendingAlignment(ord) ==
    \A k \in 1..(Len(ord) - 1) : ord[k].alignment >= ord[k + 1].alignment

\* C10: the default layout of a struct taken in order of descending
\* alignment has no padding between fields, so its size is the sum of the
\* field sizes rounded up to the largest alignment, which is at most the size
\* of the C representation of the same fields in their declared order.
C10_ReferencePacking ==
    (kind = "Struct" /\ strategy = "Default" /\ Placing /\ DescendingAlignment(order)) =>
        /\ \A k \in 1..Len(offsets) : offsets[k] = SumSizes(SubSeq(order, 1, k - 1))
        /\ Done =>
              /\ result[1].size = RoundUp(SumSizes(fields), result[1].alignment)
              /\ result[1].size <= Layout(fields).size

\* bool, i64, i32 declared in that order: 24 bytes in declaration order,
\* 16 in order of descending alignment.
C10_Witness ==
    /\ Done
    /\ kind = "Struct"
    /\ strategy = "Default"
    /\ fields = <<FD(1, 1), FD(8, 8), FD(4, 4)>>
    /\ order = <<FD(8, 8), FD(4, 4), FD(1, 1)>>
    /\ result[1].size = 16
    /\ Layout(fields).size = 24
====
